---- MODULE Spec2Model ----
(***************************************************************************)
(* Marbles chaincode (src/chaincode/marbles.go): an asset registry and a   *)
(* trade engine on top of a key/value ledger.  One step of the model is    *)
(* one invocation: Invoke dispatches a function name and its positional    *)
(* string arguments to a handler, which reads and writes the ledger.       *)
(*                                                                         *)
(* Handlers are operators from a ledger state to a Reply                   *)
(* [st, res, err]: the ledger they leave, the bytes they return and the    *)
(* error they return ("nil" for none).  The handlers Invoke calls that are *)
(* not part of marbles.go follow sections 4 and 7 of the specification.    *)
(***************************************************************************)
EXTENDS Integers, Sequences, FiniteSets, TLC

VARIABLES ledger, last

vars == <<ledger, last>>

(***************************************************************************)
(* Bounds and input sets.                                                  *)
(***************************************************************************)
MaxTrades == 2

\* Marble names and owner names are entity keys: the persisted layout keeps
\* them apart from the three singleton keys and from each other.  MarbleNames
\* are the names of the trade specification, RegistryNames those of the
\* registry and swap specifications.
MarbleNames == {"m1", "m2"}

RegistryNames == {"m1", "m2", "m3"}

OwnerNames == {"alice", "bob"}

\* the clock readings time.Now().UnixNano() the model draws from
NowNanos == {1999999}

\* ----- keys of the ledger ----- //
marbleIndexStr == "_marbleindex"

openTradesStr == "_opentrades"

ownerIndexStr == "_ownerindex"

Keys == RegistryNames \cup OwnerNames \cup {marbleIndexStr, openTradesStr, ownerIndexStr, "abc"}

(***************************************************************************)
(* Values.  The bytes stored under a key are a record: Nil when the key    *)
(* holds nothing (GetState returns nil), Raw(s) for bytes that are not a   *)
(* JSON document of the chaincode, and the document itself (with its       *)
(* docType) for the JSON encoding of a struct.                             *)
(***************************************************************************)
Nil == [docType |-> "<absent>"]

Raw(s) == [docType |-> "<raw>", bytes |-> s]

MarblesIndex(names) == [docType |-> "MarbleIndex", marbles |-> names]

AllTrades(trades) == [docType |-> "Trades", open_trades |-> trades]

OwnersIndex(names) == [docType |-> "OwnerIndex", owners |-> names]

Marble(name, color, size, owner) ==
    [docType |-> "Marble", name |-> name, color |-> color, size |-> size, owner |-> owner]

Owner(username, company, timestamp) ==
    [docType |-> "Owner", username |-> username, company |-> company, timestamp |-> timestamp]

Description(color, size) == [color |-> color, size |-> size]

AnOpenTrade(user, timestamp, want, willing) ==
    [user |-> user, timestamp |-> timestamp, want |-> want, willing |-> willing]

(***************************************************************************)
(* strconv.Atoi and strconv.Itoa on the strings the model uses.  Atoi      *)
(* accepts a sign and leading zeros, Itoa prints the canonical decimal.    *)
(***************************************************************************)
AtoiTable ==
    [s \in {"0", "1", "2", "3", "-1", "5", "10", "7", "07", "+7"} |->
        CASE s = "0" -> 0
          [] s = "1" -> 1
          [] s = "2" -> 2
          [] s = "3" -> 3
          [] s = "-1" -> 0 - 1
          [] s = "5" -> 5
          [] s = "10" -> 10
          [] s = "7" -> 7
          [] s = "07" -> 7
          [] s = "+7" -> 7]

IsInt(s) == s \in DOMAIN AtoiTable

Atoi(s) == AtoiTable[s]

Itoa(i) == CHOOSE s \in {"0", "1", "2", "3", "-1", "5", "10", "7"} : AtoiTable[s] = i

(***************************************************************************)
(* The ledger adapter: get, put and delete of one key.  The store is       *)
(* healthy: no call of it fails, and a get of an absent key is not a       *)
(* failure, it returns nil bytes and a nil error.                          *)
(***************************************************************************)
GetState(st, key) == [val |-> st[key], err |-> "nil"]

PutState(st, key, value) == [st EXCEPT ![key] = value]

DelState(st, key) == [st EXCEPT ![key] = Nil]

Reply(st, res, err) == [st |-> st, res |-> res, err |-> err]

(***************************************************************************)
(* makeTimestamp: nanoseconds to milliseconds, truncating.                 *)
(***************************************************************************)
Millisecond == 1000000

Nanosecond == 1

makeTimestamp(nanos) == nanos \div (Millisecond \div Nanosecond)

(***************************************************************************)
(* Init - reset all the things.                                            *)
(***************************************************************************)
\* mutant: Init forgets to write the empty marble index
ChaincodeInitNoMarbleIndex(st, args) ==
    IF Len(args) # 1 THEN Reply(st, Nil, "ArgumentCountError")
    ELSE IF ~IsInt(args[1]) THEN Reply(st, Nil, "ArgumentTypeError")
    ELSE LET Aval == Atoi(args[1])
             s1 == PutState(st, "abc", Raw(Itoa(Aval)))
             s3 == PutState(s1, openTradesStr, AllTrades(<<>>))
             s4 == PutState(s3, ownerIndexStr, OwnersIndex(<<>>))
         IN  Reply(s4, Nil, "nil")

ChaincodeInit(st, args) ==
    IF Len(args) # 1 THEN Reply(st, Nil, "ArgumentCountError")
    ELSE IF ~IsInt(args[1]) THEN Reply(st, Nil, "ArgumentTypeError")
    ELSE LET Aval == Atoi(args[1])
             s1 == PutState(st, "abc", Raw(Itoa(Aval)))
             s2 == PutState(s1, marbleIndexStr, MarblesIndex(<<>>))
             s3 == PutState(s2, openTradesStr, AllTrades(<<>>))
             s4 == PutState(s3, ownerIndexStr, OwnersIndex(<<>>))
         IN  Reply(s4, Nil, "nil")

(***************************************************************************)
(* Read - read a variable from chaincode state.                            *)
(***************************************************************************)
\* mutant: read drops the bytes it has read and returns nil
readReturnsNil(st, args) ==
    IF Len(args) # 1 THEN Reply(st, Nil, "ArgumentCountError")
    ELSE LET name == args[1]
             got == GetState(st, name)
         IN  IF got.err # "nil" THEN Reply(st, Nil, "StoreError")
             ELSE Reply(st, Nil, "nil")

read(st, args) ==
    IF Len(args) # 1 THEN Reply(st, Nil, "ArgumentCountError")
    ELSE LET name == args[1]
             got == GetState(st, name)
         IN  IF got.err # "nil" THEN Reply(st, Nil, "StoreError")
             ELSE Reply(st, got.val, "nil")

(***************************************************************************)
(* Write - write variable into chaincode state.                            *)
(***************************************************************************)
\* mutant: write refuses the keys of the index and open-trades documents
writeGuardsIndexKeys(st, args) ==
    IF Len(args) # 2 THEN Reply(st, Nil, "ArgumentCountError")
    ELSE LET name == args[1]
             value == args[2]
         IN  IF name \in {marbleIndexStr, openTradesStr, ownerIndexStr}
             THEN Reply(st, Nil, "ReservedKeyError")
             ELSE Reply(PutState(st, name, Raw(value)), Nil, "nil")

write(st, args) ==
    IF Len(args) # 2 THEN Reply(st, Nil, "ArgumentCountError")
    ELSE LET name == args[1]
             value == args[2]
         IN  Reply(PutState(st, name, Raw(value)), Nil, "nil")

(***************************************************************************)
(* Decoding of stored bytes (specification, sections 3 and 4.1).  Bytes    *)
(* decode to a document of a kind only when they are the encoding of such  *)
(* a document; absent or foreign bytes are a decode failure.               *)
(***************************************************************************)
IsMarble(v) == v.docType = "Marble"

IsOwner(v) == v.docType = "Owner"

IsMarblesIndex(v) == v.docType = "MarbleIndex"

IsOwnersIndex(v) == v.docType = "OwnerIndex"

IsAllTrades(v) == v.docType = "Trades"

\* the sequence s without its element at position i (1-based)
RemoveAt(s, i) == SubSeq(s, 1, i - 1) \o SubSeq(s, i + 1, Len(s))

InSeq(x, s) == \E i \in 1..Len(s) : s[i] = x

\* the position of the first occurrence of x in s, 0 when there is none
IndexOf(x, s) ==
    IF InSeq(x, s) THEN CHOOSE i \in 1..Len(s) : s[i] = x /\ \A j \in 1..(i - 1) : s[j] # x
    ELSE 0

(***************************************************************************)
(* Index Manager (specification 4.1): whole-document read, mutate, write.  *)
(* addToIndex appends the name if absent; removeFromIndex removes its      *)
(* first occurrence, and is a no-op when it is absent.                     *)
(***************************************************************************)
addToMarbleIndex(st, name) ==
    LET doc == GetState(st, marbleIndexStr).val
    IN  IF ~IsMarblesIndex(doc) THEN Reply(st, Nil, "DecodeError")
        ELSE IF InSeq(name, doc.marbles) THEN Reply(st, Nil, "nil")
        ELSE Reply(PutState(st, marbleIndexStr, MarblesIndex(Append(doc.marbles, name))),
                   Nil, "nil")

removeFromMarbleIndex(st, name) ==
    LET doc == GetState(st, marbleIndexStr).val
    IN  IF ~IsMarblesIndex(doc) THEN Reply(st, Nil, "DecodeError")
        ELSE IF ~InSeq(name, doc.marbles) THEN Reply(st, Nil, "nil")
        ELSE Reply(PutState(st, marbleIndexStr,
                            MarblesIndex(RemoveAt(doc.marbles, IndexOf(name, doc.marbles)))),
                   Nil, "nil")

addToOwnerIndex(st, name) ==
    LET doc == GetState(st, ownerIndexStr).val
    IN  IF ~IsOwnersIndex(doc) THEN Reply(st, Nil, "DecodeError")
        ELSE IF InSeq(name, doc.owners) THEN Reply(st, Nil, "nil")
        ELSE Reply(PutState(st, ownerIndexStr, OwnersIndex(Append(doc.owners, name))),
                   Nil, "nil")

(***************************************************************************)
(* Asset Registry (specification 4.2).                                     *)
(***************************************************************************)
\* createMarble(name, color, size, owner)
init_marble(st, args) ==
    IF Len(args) # 4 THEN Reply(st, Nil, "ArgumentCountError")
    ELSE IF ~IsInt(args[3]) THEN Reply(st, Nil, "ArgumentTypeError")
    ELSE LET name == args[1]
             old == GetState(st, name).val
         IN  IF IsMarble(old) THEN Reply(st, Nil, "AlreadyExistsError")
             ELSE LET s1 == PutState(st, name, Marble(name, args[2], Atoi(args[3]), args[4]))
                  IN  addToMarbleIndex(s1, name)

\* deleteMarble(name)
delete_marble(st, args) ==
    IF Len(args) # 1 THEN Reply(st, Nil, "ArgumentCountError")
    ELSE LET name == args[1]
             old == GetState(st, name).val
         IN  IF ~IsMarble(old) THEN Reply(st, Nil, "NotFoundError")
             ELSE removeFromMarbleIndex(DelState(st, name), name)

\* setOwner(name, newOwner)
set_owner(st, args) ==
    IF Len(args) # 2 THEN Reply(st, Nil, "ArgumentCountError")
    ELSE LET name == args[1]
             old == GetState(st, name).val
         IN  IF ~IsMarble(old) THEN Reply(st, Nil, "NotFoundError")
             ELSE Reply(PutState(st, name, [old EXCEPT !.owner = args[2]]), Nil, "nil")

(***************************************************************************)
(* Owner Registry (specification 4.3).                                     *)
(***************************************************************************)
\* createOwner(username, company), registered at time now
init_owner(st, args, now) ==
    IF Len(args) # 2 THEN Reply(st, Nil, "ArgumentCountError")
    ELSE LET name == args[1]
             old == GetState(st, name).val
         IN  IF IsOwner(old) THEN Reply(st, Nil, "AlreadyExistsError")
             ELSE LET s1 == PutState(st, name, Owner(name, args[2], makeTimestamp(now)))
                  IN  addToOwnerIndex(s1, name)

(***************************************************************************)
(* Trade Engine (specification 4.4).                                       *)
(***************************************************************************)
\* the descriptor of a marble record
DescOf(m) == Description(m.color, m.size)

\* the names of the index, in index order, whose marble is live, is owned by
\* user and matches some entry of willing
MatchingMarbles(st, user, willing) ==
    LET doc == GetState(st, marbleIndexStr).val
        names == IF IsMarblesIndex(doc) THEN doc.marbles ELSE <<>>
        Fits(name) == LET m == GetState(st, name).val
                      IN  /\ IsMarble(m)
                          /\ m.owner = user
                          /\ InSeq(DescOf(m), willing)
    IN  SelectSeq(names, Fits)

\* mutant: the marble given away is the last match in index order
findMarble4TradeLast(st, user, willing) ==
    LET found == MatchingMarbles(st, user, willing)
    IN  IF found = <<>> THEN Nil ELSE GetState(st, found[Len(found)]).val

\* the marble the user gives away: the first match in index order, Nil if none
findMarble4Trade(st, user, willing) ==
    LET found == MatchingMarbles(st, user, willing)
    IN  IF found = <<>> THEN Nil ELSE GetState(st, found[1]).val

\* the willing descriptors of open_trade's arguments: pairs from position 4 on
WillingOf(args) ==
    [k \in 1..((Len(args) - 3) \div 2) |->
        Description(args[2 + 2 * k], Atoi(args[3 + 2 * k]))]

\* openTrade(user, want, willing), opened at time now
open_trade(st, args, now) ==
    IF Len(args) < 5 \/ (Len(args) - 3) % 2 # 0 THEN Reply(st, Nil, "ArgumentCountError")
    ELSE IF \E k \in 1..((Len(args) - 1) \div 2) : ~IsInt(args[1 + 2 * k])
         THEN Reply(st, Nil, "ArgumentTypeError")
    ELSE LET doc == GetState(st, openTradesStr).val
             open == AnOpenTrade(args[1], makeTimestamp(now),
                                 Description(args[2], Atoi(args[3])), WillingOf(args))
         IN  IF ~IsAllTrades(doc) THEN Reply(st, Nil, "DecodeError")
             ELSE Reply(PutState(st, openTradesStr, AllTrades(Append(doc.open_trades, open))),
                        Nil, "nil")

\* performTrade(tradeIndex, counterpartyOwner, marbleName)
perform_trade(st, args) ==
    IF Len(args) # 3 THEN Reply(st, Nil, "ArgumentCountError")
    ELSE IF ~IsInt(args[1]) THEN Reply(st, Nil, "ArgumentTypeError")
    ELSE LET doc == GetState(st, openTradesStr).val
             i == Atoi(args[1])
             closer == args[2]
             theirs == GetState(st, args[3]).val
         IN  IF ~IsAllTrades(doc) THEN Reply(st, Nil, "DecodeError")
             ELSE IF i < 0 \/ i >= Len(doc.open_trades) THEN Reply(st, Nil, "NotFoundError")
             ELSE IF ~IsMarble(theirs) THEN Reply(st, Nil, "NotFoundError")
             ELSE LET trade == doc.open_trades[i + 1]
                      mine == findMarble4Trade(st, trade.user, trade.willing)
                  IN  IF theirs.owner # closer \/ DescOf(theirs) # trade.want
                      THEN Reply(st, Nil, "NoMatchError")
                      ELSE IF mine = Nil THEN Reply(st, Nil, "NoMatchError")
                      ELSE LET s1 == set_owner(st, <<theirs.name, trade.user>>).st
                               s2 == set_owner(s1, <<mine.name, closer>>).st
                           IN  Reply(PutState(s2, openTradesStr,
                                              AllTrades(RemoveAt(doc.open_trades, i + 1))),
                                     Nil, "nil")

\* removeTrade(tradeIndex)
remove_trade(st, args) ==
    IF Len(args) # 1 THEN Reply(st, Nil, "ArgumentCountError")
    ELSE IF ~IsInt(args[1]) THEN Reply(st, Nil, "ArgumentTypeError")
    ELSE LET doc == GetState(st, openTradesStr).val
             i == Atoi(args[1])
         IN  IF ~IsAllTrades(doc) THEN Reply(st, Nil, "DecodeError")
             ELSE IF i < 0 \/ i >= Len(doc.open_trades) THEN Reply(st, Nil, "NotFoundError")
             ELSE Reply(PutState(st, openTradesStr, AllTrades(RemoveAt(doc.open_trades, i + 1))),
                        Nil, "nil")

\* an open trade is satisfiable while its user holds a marble matching willing
Satisfiable(st, trade) == MatchingMarbles(st, trade.user, trade.willing) # <<>>

\* mutant: cleanTrades prunes only the first unsatisfiable trade of a pass
cleanTradesFirstOnly(st) ==
    LET doc == GetState(st, openTradesStr).val
        Stale(i) == ~Satisfiable(st, doc.open_trades[i])
    IN  IF ~IsAllTrades(doc) \/ ~IsMarblesIndex(GetState(st, marbleIndexStr).val)
        THEN Reply(st, Nil, "DecodeError")
        ELSE IF \A i \in 1..Len(doc.open_trades) : ~Stale(i) THEN Reply(st, Nil, "nil")
        ELSE LET first == CHOOSE i \in 1..Len(doc.open_trades) :
                              Stale(i) /\ \A j \in 1..(i - 1) : ~Stale(j)
             IN  Reply(PutState(st, openTradesStr, AllTrades(RemoveAt(doc.open_trades, first))),
                       Nil, "nil")

\* cleanTrades(): prune the open trades that are no longer satisfiable
cleanTrades(st) ==
    LET doc == GetState(st, openTradesStr).val
        Keep(trade) == Satisfiable(st, trade)
    IN  IF ~IsAllTrades(doc) \/ ~IsMarblesIndex(GetState(st, marbleIndexStr).val)
        THEN Reply(st, Nil, "DecodeError")
        ELSE Reply(PutState(st, openTradesStr, AllTrades(SelectSeq(doc.open_trades, Keep))),
                   Nil, "nil")

(***************************************************************************)
(* Invoke - Our entry point for Invocations.  now is the clock reading of  *)
(* the invocation, used by the handlers that stamp a record.               *)
(***************************************************************************)
\* mutant: the post-step is left out
cleanAfterSkipped(r) == r

\* mutant: the route returns the outcome of cleanTrades, not the handler's
cleanAfterReturnsClean(r) == cleanTrades(r.st)

\* the post-step of a route: cleanTrades runs on what the handler left, its
\* outcome is dropped and the handler's result and error are returned
cleanAfter(r) == Reply(cleanTrades(r.st).st, r.res, r.err)

\* mutant: cleanTrades also runs after init_marble and after remove_trade
InvokeCleanAfterMore(st, function, args, now) ==
    IF function = "init" THEN ChaincodeInit(st, args)
    ELSE IF function = "delete_marble" THEN cleanAfter(delete_marble(st, args))
    ELSE IF function = "write" THEN write(st, args)
    ELSE IF function = "init_marble" THEN cleanAfter(init_marble(st, args))
    ELSE IF function = "set_owner" THEN cleanAfter(set_owner(st, args))
    ELSE IF function = "open_trade" THEN open_trade(st, args, now)
    ELSE IF function = "perform_trade" THEN cleanAfter(perform_trade(st, args))
    ELSE IF function = "remove_trade" THEN cleanAfter(remove_trade(st, args))
    ELSE IF function = "read" THEN read(st, args)
    ELSE IF function = "init_owner" THEN init_owner(st, args, now)
    ELSE Reply(st, Nil, "UnknownFunctionError")

\* mutant: cleanTrades also runs after open_trade
InvokeCleanAfterOpen(st, function, args, now) ==
    IF function = "init" THEN ChaincodeInit(st, args)
    ELSE IF function = "delete_marble" THEN cleanAfter(delete_marble(st, args))
    ELSE IF function = "write" THEN write(st, args)
    ELSE IF function = "init_marble" THEN init_marble(st, args)
    ELSE IF function = "set_owner" THEN cleanAfter(set_owner(st, args))
    ELSE IF function = "open_trade" THEN cleanAfter(open_trade(st, args, now))
    ELSE IF function = "perform_trade" THEN cleanAfter(perform_trade(st, args))
    ELSE IF function = "remove_trade" THEN remove_trade(st, args)
    ELSE IF function = "read" THEN read(st, args)
    ELSE IF function = "init_owner" THEN init_owner(st, args, now)
    ELSE Reply(st, Nil, "UnknownFunctionError")

\* mutant: the set_owner route dispatches to write
InvokeSetOwnerWrites(st, function, args, now) ==
    IF function = "init" THEN ChaincodeInit(st, args)
    ELSE IF function = "delete_marble" THEN cleanAfter(delete_marble(st, args))
    ELSE IF function = "write" THEN write(st, args)
    ELSE IF function = "init_marble" THEN init_marble(st, args)
    ELSE IF function = "set_owner" THEN cleanAfter(write(st, args))
    ELSE IF function = "open_trade" THEN open_trade(st, args, now)
    ELSE IF function = "perform_trade" THEN cleanAfter(perform_trade(st, args))
    ELSE IF function = "remove_trade" THEN remove_trade(st, args)
    ELSE IF function = "read" THEN read(st, args)
    ELSE IF function = "init_owner" THEN init_owner(st, args, now)
    ELSE Reply(st, Nil, "UnknownFunctionError")

Invoke(st, function, args, now) ==
    IF function = "init" THEN ChaincodeInit(st, args)
    ELSE IF function = "delete_marble" THEN cleanAfter(delete_marble(st, args))
    ELSE IF function = "write" THEN write(st, args)
    ELSE IF function = "init_marble" THEN init_marble(st, args)
    ELSE IF function = "set_owner" THEN cleanAfter(set_owner(st, args))
    ELSE IF function = "open_trade" THEN open_trade(st, args, now)
    ELSE IF function = "perform_trade" THEN cleanAfter(perform_trade(st, args))
    ELSE IF function = "remove_trade" THEN remove_trade(st, args)
    ELSE IF function = "read" THEN read(st, args)
    ELSE IF function = "init_owner" THEN init_owner(st, args, now)
    ELSE Reply(st, Nil, "UnknownFunctionError")

(***************************************************************************)
(* The state machine.  ledger is the world state, last the invocation that *)
(* produced it: its function, arguments, returned bytes and error.         *)
(***************************************************************************)
Called(function, args, r) == [fn |-> function, args |-> args, res |-> r.res, err |-> r.err]

\* the ledger after deployment: Init has run on the empty store
Init ==
    \E a \in {"7", "07"} :
        LET r == ChaincodeInit([k \in Keys |-> Nil], <<a>>)
        IN  /\ ledger = r.st
            /\ last = Called("deploy", <<a>>, r)

\* what one invocation leaves: the ledger and the record of the call
Outcome(function, args, now) ==
    LET r == Invoke(ledger, function, args, now)
    IN  [ledger |-> r.st, last |-> Called(function, args, r)]

OpenTrades(st) == IF IsAllTrades(st[openTradesStr]) THEN st[openTradesStr].open_trades ELSE <<>>

IndexNames(st) == IF IsMarblesIndex(st[marbleIndexStr]) THEN st[marbleIndexStr].marbles ELSE <<>>

LiveMarbles(st) == {k \in Keys : IsMarble(st[k])}

\* ----- the arguments the invocations are drawn from ----- //
Descs == {<<"red", "5">>, <<"blue", "10">>}

InitMarbleArgs ==
    {<<n, d[1], d[2], o>> : n \in MarbleNames, d \in Descs, o \in OwnerNames}
        \cup {<<"m1", "red", "five", "alice">>, <<"m1", "red", "5">>}

NameArgs == {<<n>> : n \in MarbleNames} \cup {<<>>}

SetOwnerArgs == {<<n, o>> : n \in MarbleNames, o \in OwnerNames} \cup {<<"m1">>}

OpenTradeArgs ==
    { <<"alice", "red", "5", "blue", "10">>,
      <<"alice", "red", "5", "blue", "5", "blue", "10">>,
      <<"bob", "blue", "10", "red", "5">>,
      <<"bob", "red", "10", "red", "5">>,
      <<"bob", "red", "5">>,
      <<"bob", "red", "5", "blue", "x">> }

TradeIndexStrings == {"-1", "0", "1", "2", "3"}

PerformTradeArgs ==
    {<<i, o, n>> : i \in {"0", "1", "2"}, o \in OwnerNames, n \in MarbleNames}
        \cup {<<"-1", "bob", "m1">>, <<"3", "bob", "m1">>, <<"x", "bob", "m1">>, <<"0", "bob">>}

RemoveTradeArgs == {<<i>> : i \in TradeIndexStrings} \cup {<<"x">>, <<>>}

ReadArgs == {<<k>> : k \in MarbleNames \cup {marbleIndexStr, "abc"}} \cup {<<>>, <<"m1", "m2">>}

\* ----- one action per route of Invoke ----- //
InitMarble ==
    \E args \in InitMarbleArgs :
        \E o \in {Outcome("init_marble", args, 0)} :
            /\ ledger' = o.ledger
            /\ last' = o.last

DeleteMarble ==
    \E args \in NameArgs :
        \E o \in {Outcome("delete_marble", args, 0)} :
            /\ ledger' = o.ledger
            /\ last' = o.last

SetOwner ==
    \E args \in SetOwnerArgs :
        \E o \in {Outcome("set_owner", args, 0)} :
            /\ ledger' = o.ledger
            /\ last' = o.last

OpenTrade ==
    /\ Len(OpenTrades(ledger)) < MaxTrades
    /\ \E args \in OpenTradeArgs, now \in NowNanos :
          \E o \in {Outcome("open_trade", args, now)} :
              /\ ledger' = o.ledger
              /\ last' = o.last

PerformTrade ==
    \E args \in PerformTradeArgs :
        \E o \in {Outcome("perform_trade", args, 0)} :
            /\ ledger' = o.ledger
            /\ last' = o.last

RemoveTrade ==
    \E args \in RemoveTradeArgs :
        \E o \in {Outcome("remove_trade", args, 0)} :
            /\ ledger' = o.ledger
            /\ last' = o.last

Read ==
    \E args \in ReadArgs :
        \E o \in {Outcome("read", args, 0)} :
            /\ ledger' = o.ledger
            /\ last' = o.last

\* the asset registry alone: createMarble and deleteMarble, on three names
RegistryInitMarbleArgs ==
    {<<n, d[1], d[2], o>> : n \in RegistryNames, d \in Descs, o \in OwnerNames}
        \cup {<<"m1", "red", "five", "alice">>, <<"m1", "red", "5">>}

RegistryNameArgs == {<<n>> : n \in RegistryNames} \cup {<<>>}

RegistryInitMarble ==
    \E args \in RegistryInitMarbleArgs :
        \E o \in {Outcome("init_marble", args, 0)} :
            /\ ledger' = o.ledger
            /\ last' = o.last

RegistryDeleteMarble ==
    \E args \in RegistryNameArgs :
        \E o \in {Outcome("delete_marble", args, 0)} :
            /\ ledger' = o.ledger
            /\ last' = o.last

NextRegistry == RegistryInitMarble \/ RegistryDeleteMarble

SpecRegistry == Init /\ [][NextRegistry]_vars

\* the registry and the trade engine
NextTrades ==
    \/ InitMarble
    \/ DeleteMarble
    \/ SetOwner
    \/ OpenTrade
    \/ PerformTrade
    \/ RemoveTrade
    \/ Read

SpecTrades == Init /\ [][NextTrades]_vars

\* the swap: three marbles, two kinds of offer, create, open and perform
SwapOpenTradeArgs ==
    { <<"alice", "red", "5", "blue", "10">>,
      <<"bob", "blue", "10", "red", "5">> }

SwapPerformTradeArgs ==
    {<<i, o, n>> : i \in {"0", "1"}, o \in OwnerNames, n \in RegistryNames}
        \cup {<<"2", "bob", "m1">>}

SwapOpenTrade ==
    /\ Len(OpenTrades(ledger)) < MaxTrades
    /\ \E args \in SwapOpenTradeArgs, now \in NowNanos :
          \E o \in {Outcome("open_trade", args, now)} :
              /\ ledger' = o.ledger
              /\ last' = o.last

SwapPerformTrade ==
    \E args \in SwapPerformTradeArgs :
        \E o \in {Outcome("perform_trade", args, 0)} :
            /\ ledger' = o.ledger
            /\ last' = o.last

NextSwap == RegistryInitMarble \/ SwapOpenTrade \/ SwapPerformTrade

SpecSwap == Init /\ [][NextSwap]_vars

\* the whole dispatch: every route of Invoke, init used as reset and the raw
\* write included, and a function name Invoke does not know.  The strings
\* written by write are not JSON documents of the chaincode.
InvokeInitArgs == {<<"+7">>, <<"x">>, <<>>}

InvokeWriteArgs ==
    {<<marbleIndexStr, "x">>, <<openTradesStr, "x">>, <<ownerIndexStr, "x">>, <<"m1", "x">>,
     <<"abc", "5">>, <<"abc">>}

InvokeInitMarbleArgs ==
    {<<"m1", "blue", "10", "alice">>, <<"m2", "red", "5", "bob">>, <<"m1", "blue", "ten", "alice">>}

InvokeDeleteMarbleArgs == {<<"m1">>, <<"m2">>, <<>>}

InvokeSetOwnerArgs == {<<"m1", "bob">>, <<"m1", "carol">>, <<"m2", "bob">>, <<"m1">>}

InvokeInitOwnerArgs == {<<"alice", "acme">>, <<"bob", "acme">>, <<"alice">>}

InvokeOpenTradeArgs == {<<"alice", "red", "5", "blue", "10">>, <<"alice", "red", "5">>}

InvokePerformTradeArgs == {<<"0", "bob", "m2">>, <<"1", "bob", "m2">>, <<"0", "bob">>}

InvokeRemoveTradeArgs == {<<"0">>, <<"3">>, <<"-1">>}

InvokeReadArgs == {<<"m1">>, <<"abc">>, <<>>}

InvokeInit ==
    \E args \in InvokeInitArgs :
        \E o \in {Outcome("init", args, 0)} :
            /\ ledger' = o.ledger
            /\ last' = o.last

InvokeWrite ==
    \E args \in InvokeWriteArgs :
        \E o \in {Outcome("write", args, 0)} :
            /\ ledger' = o.ledger
            /\ last' = o.last

InvokeInitMarble ==
    \E args \in InvokeInitMarbleArgs :
        \E o \in {Outcome("init_marble", args, 0)} :
            /\ ledger' = o.ledger
            /\ last' = o.last

InvokeDeleteMarble ==
    \E args \in InvokeDeleteMarbleArgs :
        \E o \in {Outcome("delete_marble", args, 0)} :
            /\ ledger' = o.ledger
            /\ last' = o.last

InvokeSetOwner ==
    \E args \in InvokeSetOwnerArgs :
        \E o \in {Outcome("set_owner", args, 0)} :
            /\ ledger' = o.ledger
            /\ last' = o.last

InvokeInitOwner ==
    \E args \in InvokeInitOwnerArgs, now \in NowNanos :
        \E o \in {Outcome("init_owner", args, now)} :
            /\ ledger' = o.ledger
            /\ last' = o.last

InvokeOpenTrade ==
    /\ Len(OpenTrades(ledger)) < MaxTrades
    /\ \E args \in InvokeOpenTradeArgs, now \in NowNanos :
          \E o \in {Outcome("open_trade", args, now)} :
              /\ ledger' = o.ledger
              /\ last' = o.last

InvokePerformTrade ==
    \E args \in InvokePerformTradeArgs :
        \E o \in {Outcome("perform_trade", args, 0)} :
            /\ ledger' = o.ledger
            /\ last' = o.last

InvokeRemoveTrade ==
    \E args \in InvokeRemoveTradeArgs :
        \E o \in {Outcome("remove_trade", args, 0)} :
            /\ ledger' = o.ledger
            /\ last' = o.last

InvokeRead ==
    \E args \in InvokeReadArgs :
        \E o \in {Outcome("read", args, 0)} :
            /\ ledger' = o.ledger
            /\ last' = o.last

InvokeUnknown ==
    \E o \in {Outcome("query", <<"abc">>, 0)} :
        /\ ledger' = o.ledger
        /\ last' = o.last

Next ==
    \/ InvokeInit
    \/ InvokeWrite
    \/ InvokeInitMarble
    \/ InvokeDeleteMarble
    \/ InvokeSetOwner
    \/ InvokeInitOwner
    \/ InvokeOpenTrade
    \/ InvokePerformTrade
    \/ InvokeRemoveTrade
    \/ InvokeRead
    \/ InvokeUnknown

Spec == Init /\ [][Next]_vars

(***************************************************************************)
(* Properties.                                                             *)
(***************************************************************************)
\* the set of elements of a sequence
Range(s) == {s[i] : i \in 1..Len(s)}

NoDuplicates(s) == \A i, j \in 1..Len(s) : i # j => s[i] # s[j]

\* the sequence s without the occurrences of x
Without(s, x) == LET Other(y) == y # x IN SelectSeq(s, Other)

\* C1: after any sequence of createMarble and deleteMarble calls, successful
\* or failing, the names of the marble index are exactly the keys that hold a
\* live Marble record, and no name is listed twice.
IndexMatchesLiveMarbles ==
    /\ IsMarblesIndex(ledger[marbleIndexStr])
    /\ Range(ledger[marbleIndexStr].marbles) = LiveMarbles(ledger)
    /\ NoDuplicates(ledger[marbleIndexStr].marbles)

\* C1 witness: a delete has succeeded, a marble is still live and listed
IndexMatchesLiveMarblesWitness ==
    /\ last.fn = "delete_marble"
    /\ last.err = "nil"
    /\ Len(IndexNames(ledger)) = 2
    /\ Range(IndexNames(ledger)) = LiveMarbles(ledger)

\* C6: deleteMarble of a name that is not a live marble fails with
\* NotFoundError and changes neither the index nor any marble record;
\* deleteMarble of a live marble removes its record and exactly its name from
\* the index, the other names keeping their order.
DeleteMarbleEffect ==
    [][(last'.fn = "delete_marble" /\ Len(last'.args) = 1) =>
        LET name == last'.args[1]
        IN  IF ~InSeq(name, IndexNames(ledger))
            THEN /\ last'.err = "NotFoundError"
                 /\ ledger'[marbleIndexStr] = ledger[marbleIndexStr]
                 /\ \A k \in RegistryNames : ledger'[k] = ledger[k]
            ELSE /\ last'.err = "nil"
                 /\ ledger'[name] = Nil
                 /\ ledger'[marbleIndexStr] = MarblesIndex(Without(IndexNames(ledger), name))
                 /\ \A k \in RegistryNames \ {name} : ledger'[k] = ledger[k]]_vars

\* C6 witness: the middle name of three has been deleted from the index
DeleteMarbleEffectWitness ==
    /\ last.fn = "delete_marble"
    /\ last.err = "nil"
    /\ last.args = <<"m2">>
    /\ IndexNames(ledger) = <<"m1", "m3">>

\* the trade's user holds a live marble record matching one of its willing
\* descriptors
HoldsWillingMarble(st, trade) ==
    \E n \in LiveMarbles(st) :
        /\ st[n].owner = trade.user
        /\ \E j \in 1..Len(trade.willing) :
              /\ trade.willing[j].color = st[n].color
              /\ trade.willing[j].size = st[n].size

\* the open trades of st that are satisfiable in the ledger at, in order
SatisfiableTrades(st, at) ==
    LET Holds(trade) == HoldsWillingMarble(at, trade) IN SelectSeq(OpenTrades(st), Holds)

\* C2: after a setOwner or deleteMarble call, whatever its outcome, followed
\* by cleanTrades(), every open trade left has a user who owns a live marble
\* matching one of the trade's willing descriptors.
OpenTradesSatisfiableAfterClean ==
    last.fn \in {"set_owner", "delete_marble"} =>
        \A i \in 1..Len(OpenTrades(ledger)) : HoldsWillingMarble(ledger, OpenTrades(ledger)[i])

\* C2 witness: a reassignment went through and an open trade survived the pass
OpenTradesSatisfiableAfterCleanWitness ==
    /\ last.fn = "set_owner"
    /\ last.err = "nil"
    /\ Len(OpenTrades(ledger)) = 1

\* C3: cleanTrades() is idempotent: a second run right after a first leaves
\* the open-trades list, and every other key, as the first run left them.
CleanTradesIdempotent ==
    LET once == cleanTrades(ledger)
        twice == cleanTrades(once.st)
    IN  /\ OpenTrades(twice.st) = OpenTrades(once.st)
        /\ twice.st = once.st

\* C3 witness: two open trades of which the first run prunes exactly one
CleanTradesIdempotentWitness ==
    /\ Len(OpenTrades(ledger)) = 2
    /\ Len(OpenTrades(cleanTrades(ledger).st)) = 1

\* the target of a perform_trade call and whether the call finds a match
WantMismatch(st, args) ==
    LET trade == OpenTrades(st)[Atoi(args[1]) + 1]
    IN  \/ st[args[3]].color # trade.want.color
        \/ st[args[3]].size # trade.want.size

NothingToGive(st, args) == ~HoldsWillingMarble(st, OpenTrades(st)[Atoi(args[1]) + 1])

\* a well-formed perform_trade call on an open trade and a live marble
TradeCall(st, c) ==
    /\ c.fn = "perform_trade"
    /\ Len(c.args) = 3
    /\ IsInt(c.args[1])
    /\ Atoi(c.args[1]) >= 0
    /\ Atoi(c.args[1]) < Len(OpenTrades(st))
    /\ IsMarble(st[c.args[3]])

\* C5 as claimed: a performTrade that finds no match fails with NoMatchError
\* and leaves all state unchanged, also through the perform_trade route.
NoMatchLeavesStateUnchanged ==
    [][(TradeCall(ledger, last') /\ (WantMismatch(ledger, last'.args)
                                      \/ NothingToGive(ledger, last'.args))) =>
          /\ last'.err = "NoMatchError"
          /\ ledger' = ledger]_vars

\* C5 amended: a performTrade that finds no match fails with NoMatchError and
\* changes no marble record and no index; through the perform_trade route
\* the open-trades list it leaves is the list before without its
\* unsatisfiable offers, which cleanTrades prunes after the failure.
NoMatchLeavesMarblesUnchanged ==
    [][(TradeCall(ledger, last') /\ (WantMismatch(ledger, last'.args)
                                      \/ NothingToGive(ledger, last'.args))) =>
          /\ last'.err = "NoMatchError"
          /\ \A k \in Keys \ {openTradesStr} : ledger'[k] = ledger[k]
          /\ ledger'[openTradesStr] = AllTrades(SatisfiableTrades(ledger, ledger))]_vars

\* C5 witness: a trade call failed for want of a match and its offer is still open
NoMatchLeavesMarblesUnchangedWitness ==
    /\ last.fn = "perform_trade"
    /\ last.err = "NoMatchError"
    /\ TradeCall(ledger, last)
    /\ WantMismatch(ledger, last.args)

\* C7: removeTrade with an index below 0 or not below the number of open
\* trades fails with NotFoundError and leaves the list unchanged; with an
\* index in range it removes the entry at that position alone, keeps the
\* others in order, and changes no other key.
RemoveTradeEffect ==
    [][(last'.fn = "remove_trade" /\ Len(last'.args) = 1 /\ IsInt(last'.args[1])) =>
        LET i == Atoi(last'.args[1])
            old == OpenTrades(ledger)
            new == OpenTrades(ledger')
        IN  IF i < 0 \/ i >= Len(old)
            THEN /\ last'.err = "NotFoundError"
                 /\ ledger' = ledger
            ELSE /\ last'.err = "nil"
                 /\ Len(new) = Len(old) - 1
                 /\ \A j \in 1..Len(new) : new[j] = IF j <= i THEN old[j] ELSE old[j + 1]
                 /\ \A k \in Keys \ {openTradesStr} : ledger'[k] = ledger[k]]_vars

\* C7 witness: the first of two open trades was removed, the second moved up
RemoveTradeEffectWitness ==
    /\ last.fn = "remove_trade"
    /\ last.args = <<"0">>
    /\ last.err = "nil"
    /\ Len(OpenTrades(ledger)) = 1

\* C8 as claimed: read(key) returns the bytes stored under a present key,
\* returns an error for a key that holds no value, and changes no key.
ReadFailsOnAbsentKey ==
    [][(last'.fn = "read" /\ Len(last'.args) = 1) =>
          /\ IF ledger[last'.args[1]] # Nil
             THEN last'.err = "nil" /\ last'.res = ledger[last'.args[1]]
             ELSE last'.err # "nil"
          /\ ledger' = ledger]_vars

\* C8 amended: read(key) returns the bytes stored under a present key; for a
\* key that holds no value it returns nil bytes and no error (it returns an
\* error only when the ledger's get fails); it changes no key.
ReadReturnsStoredBytes ==
    [][(last'.fn = "read" /\ Len(last'.args) = 1) =>
          /\ last'.err = "nil"
          /\ last'.res = ledger[last'.args[1]]
          /\ ledger' = ledger]_vars

\* C8 witness: a read of a key that holds nothing has returned nil, no error
ReadReturnsStoredBytesWitness ==
    /\ last.fn = "read"
    /\ last.args = <<"m2">>
    /\ ledger["m2"] = Nil
    /\ ledger["m1"] # Nil
    /\ last.res = Nil
    /\ last.err = "nil"

\* C9: createMarble of a name that already is a Marble fails with
\* AlreadyExistsError and changes nothing: the record, the marble index (the
\* name is not appended again) and the open-trades list stay as they were.
DuplicateCreateChangesNothing ==
    [][(/\ last'.fn = "init_marble"
        /\ Len(last'.args) = 4
        /\ IsInt(last'.args[3])
        /\ IsMarble(ledger[last'.args[1]])) =>
          /\ last'.err = "AlreadyExistsError"
          /\ ledger' = ledger]_vars

\* C9 witness: a duplicate create was refused while an open trade that no
\* marble satisfies is on the list
DuplicateCreateChangesNothingWitness ==
    /\ last.fn = "init_marble"
    /\ last.err = "AlreadyExistsError"
    /\ Len(IndexNames(ledger)) = 1
    /\ Len(OpenTrades(ledger)) = 1
    /\ ~HoldsWillingMarble(ledger, OpenTrades(ledger)[1])

\* the call c, made in ledger st, may change the record of marble n: a
\* setOwner, deleteMarble or write on n, or a performTrade that names n or
\* picks n as the marble given away
Touches(st, c, n) ==
    \/ c.fn \in {"set_owner", "delete_marble", "write"} /\ Len(c.args) >= 1 /\ c.args[1] = n
    \/ /\ TradeCall(st, c)
       /\ \/ c.args[3] = n
          \/ LET trade == OpenTrades(st)[Atoi(c.args[1]) + 1]
             IN  /\ st[n].owner = trade.user
                 /\ \E j \in 1..Len(trade.willing) :
                       trade.willing[j] = Description(st[n].color, st[n].size)

\* C10: create/read round trip.  A successful createMarble(n, c, s, o) stores
\* the record of n with color c, size s and owner o; a call that is no
\* setOwner, performTrade, deleteMarble or write on n leaves that record as
\* it is; and read(n) returns the record stored under n.
CreateReadRoundTrip ==
    [][/\ (last'.fn = "init_marble" /\ last'.err = "nil") =>
            /\ IsMarble(ledger'[last'.args[1]])
            /\ ledger'[last'.args[1]].name = last'.args[1]
            /\ ledger'[last'.args[1]].color = last'.args[2]
            /\ ledger'[last'.args[1]].size = Atoi(last'.args[3])
            /\ ledger'[last'.args[1]].owner = last'.args[4]
       /\ \A n \in MarbleNames :
            (IsMarble(ledger[n]) /\ ~Touches(ledger, last', n)) => ledger'[n] = ledger[n]
       /\ \A n \in MarbleNames :
            (last'.fn = "read" /\ last'.args = <<n>> /\ IsMarble(ledger[n])) =>
                /\ last'.err = "nil"
                /\ last'.res = ledger[n]]_vars

\* C10 witness: the record created as ("m1", "blue", "10", "alice") was read back
CreateReadRoundTripWitness ==
    /\ last.fn = "read"
    /\ last.args = <<"m1">>
    /\ last.err = "nil"
    /\ last.res = Marble("m1", "blue", 10, "alice")

\* the perform_trade call c finds a match in ledger st: the marble it names
\* is owned by the counterparty and matches the trade's want, and the trade's
\* user holds a marble matching willing
SwapMatches(st, c) ==
    /\ TradeCall(st, c)
    /\ st[c.args[3]].owner = c.args[2]
    /\ ~WantMismatch(st, c.args)
    /\ ~NothingToGive(st, c.args)

\* the list s without its entry at index i (0-based)
DropIndex(s, i) == [j \in 1..(Len(s) - 1) |-> IF j <= i THEN s[j] ELSE s[j + 1]]

\* the marbles after the swap of theirs for mine, in the trade at index i
SwappedMarbles(i, theirs, mine) ==
    LET trade == OpenTrades(ledger)[i + 1]
    IN  /\ IsMarble(ledger[mine])
        /\ ledger[mine].owner = trade.user
        /\ \E j \in 1..Len(trade.willing) : trade.willing[j] = DescOf(ledger[mine])
        /\ \A k \in RegistryNames :
              ledger'[k] = IF k = mine THEN [ledger[k] EXCEPT !.owner = last'.args[2]]
                           ELSE IF k = theirs THEN [ledger[k] EXCEPT !.owner = trade.user]
                           ELSE ledger[k]
        /\ ledger'[marbleIndexStr] = ledger[marbleIndexStr]

\* C4 as claimed: a performTrade that finds a match swaps the owners of the
\* two marbles, removes the trade and changes no other marble and no other
\* open trade; a performTrade that fails changes no marble, so that never
\* exactly one of the two marbles has changed owner.
SwapLeavesOtherTrades ==
    [][last'.fn = "perform_trade" =>
        IF SwapMatches(ledger, last')
        THEN /\ last'.err = "nil"
             /\ \E mine \in RegistryNames :
                   SwappedMarbles(Atoi(last'.args[1]), last'.args[3], mine)
             /\ OpenTrades(ledger') = DropIndex(OpenTrades(ledger), Atoi(last'.args[1]))
        ELSE /\ last'.err # "nil"
             /\ \A k \in RegistryNames : ledger'[k] = ledger[k]]_vars

\* C4 amended: a performTrade that finds a match swaps the owners of the two
\* marbles, removes the trade and changes no other marble; the other open
\* trades stay as they were, in order, except those that are unsatisfiable
\* after the swap, which the cleanTrades post-step of the route prunes; a
\* performTrade that fails changes no marble, so that never exactly one of
\* the two marbles has changed owner.
SwapPrunesStaleTrades ==
    [][last'.fn = "perform_trade" =>
        IF SwapMatches(ledger, last')
        THEN /\ last'.err = "nil"
             /\ \E mine \in RegistryNames :
                   SwappedMarbles(Atoi(last'.args[1]), last'.args[3], mine)
             /\ LET Holds(trade) == HoldsWillingMarble(ledger', trade)
                IN  OpenTrades(ledger') =
                        SelectSeq(DropIndex(OpenTrades(ledger), Atoi(last'.args[1])), Holds)
        ELSE /\ last'.err # "nil"
             /\ \A k \in RegistryNames : ledger'[k] = ledger[k]]_vars

\* C4 witness: a swap between two owners went through, three marbles are
\* live and another open trade is still on the list
SwapPrunesStaleTradesWitness ==
    /\ last.fn = "perform_trade"
    /\ last.err = "nil"
    /\ ledger[last.args[3]].owner # last.args[2]
    /\ Len(IndexNames(ledger)) = 3
    /\ Len(OpenTrades(ledger)) = 1

\* the willing list an open_trade invocation names: one description for each
\* pair of arguments after the third
WillingArgs(args) ==
    [k \in 1..((Len(args) - 3) \div 2) |->
        Description(args[2 + 2 * k], Atoi(args[3 + 2 * k]))]

\* an open_trade invocation whose arguments are well formed
WellFormedOffer(args) ==
    /\ Len(args) >= 3
    /\ (Len(args) - 3) % 2 = 0
    /\ \A k \in 3..Len(args) : (k % 2 = 1) => IsInt(args[k])

\* C11: openTrade with an empty willing list fails and changes nothing; any
\* other well-formed openTrade succeeds and appends exactly one offer
\* (user, want, willing) at the end of the open-trades list, whether or not an
\* identical offer is already listed, keeps the offers already there in their
\* order, and changes no marble, owner or index document.
OpenTradeAppends ==
    [][(last'.fn = "open_trade" /\ WellFormedOffer(last'.args)) =>
          IF Len(last'.args) = 3
          THEN /\ last'.err # "nil"
               /\ ledger' = ledger
          ELSE /\ last'.err = "nil"
               /\ \E t \in NowNanos :
                     OpenTrades(ledger') =
                         Append(OpenTrades(ledger),
                                AnOpenTrade(last'.args[1], t \div 1000000,
                                            Description(last'.args[2], Atoi(last'.args[3])),
                                            WillingArgs(last'.args)))
               /\ \A k \in Keys \ {openTradesStr} : ledger'[k] = ledger[k]]_vars

\* an offer was appended behind an identical one
OpenTradeAppendsWitness ==
    /\ last.fn = "open_trade"
    /\ last.err = "nil"
    /\ Len(OpenTrades(ledger)) = 2
    /\ OpenTrades(ledger)[1] = OpenTrades(ledger)[2]
    /\ Len(OpenTrades(ledger)[2].willing) = 2

OwnerIndexNames(st) == IF IsOwnersIndex(st[ownerIndexStr]) THEN st[ownerIndexStr].owners ELSE <<>>

LiveOwners(st) == {k \in Keys : IsOwner(st[k])}

\* both index documents list exactly the keys of the live records of their kind
IndexesMatchRecords(st) ==
    /\ IsMarblesIndex(st[marbleIndexStr])
    /\ Range(st[marbleIndexStr].marbles) = LiveMarbles(st)
    /\ IsOwnersIndex(st[ownerIndexStr])
    /\ Range(st[ownerIndexStr].owners) = LiveOwners(st)

\* C12 as stated: in every state reachable through the routes of Invoke, init
\* used as reset and write included, the marble index lists exactly the live
\* Marble records and the owner index exactly the live Owner records.
IndexesMatchLiveRecords == IndexesMatchRecords(ledger)

\* C12 amended: the routes of Invoke other than init and write keep both
\* indexes equal to the live records of their kind; init used as reset empties
\* the indexes over the records it leaves, and write stores any bytes under
\* any key.
RoutesKeepIndexes ==
    [][(last'.fn \notin {"init", "write"} /\ IndexesMatchRecords(ledger)) =>
          IndexesMatchRecords(ledger')]_vars

\* a marble and an owner are live and listed after an invocation that changed
\* a record
RoutesKeepIndexesWitness ==
    /\ last.fn \in {"set_owner", "perform_trade", "init_owner", "init_marble"}
    /\ last.err = "nil"
    /\ LiveMarbles(ledger) # {}
    /\ LiveOwners(ledger) # {}
    /\ IndexesMatchRecords(ledger)

\* a is b with some of its entries left out, the others keeping their order
IsSubSeq(a, b) ==
    \E f \in [1..Len(a) -> 1..Len(b)] :
        /\ \A i \in 1..Len(a) : a[i] = b[f[i]]
        /\ \A i, j \in 1..Len(a) : i < j => f[i] < f[j]

\* the step appended one offer through a successful open_trade
OfferEntered ==
    /\ last'.fn = "open_trade"
    /\ last'.err = "nil"
    /\ IsAllTrades(ledger[openTradesStr])
    /\ \E t \in NowNanos :
          ledger'[openTradesStr] =
              AllTrades(Append(OpenTrades(ledger),
                               AnOpenTrade(last'.args[1], t \div 1000000,
                                           Description(last'.args[2], Atoi(last'.args[3])),
                                           WillingArgs(last'.args))))

\* the step removed the offer at the position a successful remove_trade named
OfferCancelled ==
    /\ last'.fn = "remove_trade"
    /\ last'.err = "nil"
    /\ Atoi(last'.args[1]) \in 0..(Len(OpenTrades(ledger)) - 1)
    /\ ledger'[openTradesStr] = AllTrades(DropIndex(OpenTrades(ledger), Atoi(last'.args[1])))

\* the step removed the offer a successful perform_trade fulfilled and the
\* offers the cleanTrades pass after it pruned
OfferFulfilled ==
    /\ last'.fn = "perform_trade"
    /\ last'.err = "nil"
    /\ Atoi(last'.args[1]) \in 0..(Len(OpenTrades(ledger)) - 1)
    /\ IsAllTrades(ledger'[openTradesStr])
    /\ IsSubSeq(OpenTrades(ledger'), DropIndex(OpenTrades(ledger), Atoi(last'.args[1])))

\* the step removed offers in the cleanTrades pass of a route that runs it
OffersInvalidated ==
    /\ last'.fn \in {"delete_marble", "set_owner", "perform_trade"}
    /\ IsAllTrades(ledger'[openTradesStr])
    /\ IsSubSeq(OpenTrades(ledger'), OpenTrades(ledger))
    /\ \A i \in 1..Len(OpenTrades(ledger)) :
          HoldsWillingMarble(ledger', OpenTrades(ledger)[i]) /\ IndexesMatchRecords(ledger')
              => \E j \in 1..Len(OpenTrades(ledger')) : OpenTrades(ledger')[j] = OpenTrades(ledger)[i]

\* the step emptied the list through init used as reset
OffersReset ==
    /\ last'.fn = "init"
    /\ last'.err = "nil"
    /\ ledger'[openTradesStr] = AllTrades(<<>>)

\* the step replaced the open-trades document through write
OffersOverwritten ==
    /\ last'.fn = "write"
    /\ last'.err = "nil"
    /\ last'.args[1] = openTradesStr
    /\ ledger'[openTradesStr] = Raw(last'.args[2])

\* C13 as stated: the open-trades document changes only by an offer entering
\* through a successful openTrade, or leaving through a successful
\* performTrade, a removeTrade on its position or a cleanTrades pass; no other
\* invocation removes or alters an open offer.
OffersLeaveByThreeExits ==
    [][ledger'[openTradesStr] # ledger[openTradesStr] =>
          OfferEntered \/ OfferCancelled \/ OfferFulfilled \/ OffersInvalidated]_vars

\* C13 amended: besides the entry through openTrade and the three exits, init
\* used as reset empties the open-trades list and write on the open-trades key
\* replaces the document; no other invocation changes it, and an offer that
\* has left is listed again only by a new successful openTrade.
OffersLeaveByExitsOrReset ==
    [][ledger'[openTradesStr] # ledger[openTradesStr] =>
          \/ OfferEntered
          \/ OfferCancelled
          \/ OfferFulfilled
          \/ OffersInvalidated
          \/ OffersReset
          \/ OffersOverwritten]_vars

\* an offer was cancelled while a marble is live and another offer stays open
OffersLeaveByExitsOrResetWitness ==
    /\ last.fn = "remove_trade"
    /\ last.err = "nil"
    /\ Len(OpenTrades(ledger)) = 1
    /\ LiveMarbles(ledger) # {}

\* a delete_marble or set_owner call with the wrong number of arguments
WrongArgumentCount(c) ==
    \/ c.fn = "delete_marble" /\ Len(c.args) # 1
    \/ c.fn = "set_owner" /\ Len(c.args) # 2

\* a delete_marble or set_owner call that names no live marble of st
NamesNoMarble(st, c) ==
    /\ c.fn \in {"delete_marble", "set_owner"}
    /\ ~WrongArgumentCount(c)
    /\ ~IsMarble(st[c.args[1]])

\* C14 as stated: a delete_marble or set_owner invocation that fails
\* validation, on its argument count or because the marble does not exist,
\* leaves the whole ledger, the open-trades list included, as it was.
ValidationFailureChangesNothing ==
    [][(WrongArgumentCount(last') \/ NamesNoMarble(ledger, last')) =>
          /\ last'.err = IF WrongArgumentCount(last') THEN "ArgumentCountError"
                          ELSE "NotFoundError"
          /\ ledger' = ledger]_vars

\* C14 amended: such an invocation fails with its validation error and changes
\* no marble record, owner record or index; the cleanTrades pass of the route
\* still runs after the failure, so the open-trades list afterwards is the
\* list before without its unsatisfiable offers.
ValidationFailureOnlyPrunes ==
    [][(WrongArgumentCount(last') \/ NamesNoMarble(ledger, last')) =>
          /\ last'.err = IF WrongArgumentCount(last') THEN "ArgumentCountError"
                          ELSE "NotFoundError"
          /\ \A k \in Keys \ {openTradesStr} : ledger'[k] = ledger[k]
          /\ ledger'[openTradesStr] = AllTrades(SatisfiableTrades(ledger, ledger))]_vars

\* a set_owner on a marble that does not exist failed and an offer is still open
ValidationFailureOnlyPrunesWitness ==
    /\ last.fn = "set_owner"
    /\ last.err = "NotFoundError"
    /\ LiveMarbles(ledger) # {}
    /\ Len(OpenTrades(ledger)) = 1

\* C15: setOwner(name, newOwner) on a live marble succeeds, whether or not
\* newOwner is a registered owner, and changes only the owner field of that
\* marble: its name, color and size, every other marble record, every owner
\* record and both index documents stay as they were; on a name that is no
\* live marble it fails with NotFoundError.
SetOwnerChangesOwnerOnly ==
    [][(last'.fn = "set_owner" /\ Len(last'.args) = 2) =>
          LET name == last'.args[1]
              old == ledger[name]
          IN  IF IsMarble(old)
              THEN /\ last'.err = "nil"
                   /\ ledger'[name] = Marble(old.name, old.color, old.size, last'.args[2])
                   /\ \A k \in Keys \ {name, openTradesStr} : ledger'[k] = ledger[k]
              ELSE /\ last'.err = "NotFoundError"
                   /\ \A k \in Keys \ {openTradesStr} : ledger'[k] = ledger[k]]_vars

\* a marble went to an owner who is not registered while another owner is
\* registered and listed
SetOwnerChangesOwnerOnlyWitness ==
    /\ last.fn = "set_owner"
    /\ last.err = "nil"
    /\ IsMarble(ledger["m1"])
    /\ ledger["m1"].owner = "carol"
    /\ IsMarble(ledger["m2"])
    /\ LiveOwners(ledger) = {"alice"}
    /\ OwnerIndexNames(ledger) = <<"alice">>

\* what the handler of a route with the cleanTrades post-step leaves, before
\* the pass
HandlerLeaves(st, c) ==
    IF c.fn = "delete_marble" THEN delete_marble(st, c.args).st
    ELSE IF c.fn = "set_owner" THEN set_owner(st, c.args).st
    ELSE perform_trade(st, c.args).st

\* C16: the cleanTrades pass that follows a delete_marble, set_owner or
\* perform_trade handler removes exactly the open trades whose user owns no
\* live marble matching an entry of willing, keeps every other open trade
\* unmodified and in order, and changes no marble record, owner record or
\* index document the handler left.
CleanTradesPrunesExactly ==
    [][last'.fn \in {"delete_marble", "set_owner", "perform_trade"} =>
          \E h \in {HandlerLeaves(ledger, last')} :
              /\ ledger'[openTradesStr] = AllTrades(SatisfiableTrades(h, h))
              /\ \A k \in Keys \ {openTradesStr} : ledger'[k] = h[k]]_vars

\* a marble was deleted, the pass pruned the offers of its owner and kept the
\* offer of the owner of the marble that is left
CleanTradesPrunesExactlyWitness ==
    /\ last.fn = "delete_marble"
    /\ last.err = "nil"
    /\ Cardinality(LiveMarbles(ledger)) = 1
    /\ Len(OpenTrades(ledger)) = 1
    /\ HoldsWillingMarble(ledger, OpenTrades(ledger)[1])

\* the outcome of the handler of a route that has the cleanTrades post-step
PostStepHandler(st, c) ==
    IF c.fn = "delete_marble" THEN delete_marble(st, c.args)
    ELSE IF c.fn = "set_owner" THEN set_owner(st, c.args)
    ELSE perform_trade(st, c.args)

\* the open trades of st whose user holds no marble matching willing
StaleTrades(st) ==
    LET Stale(trade) == ~HoldsWillingMarble(st, trade) IN SelectSeq(OpenTrades(st), Stale)

\* C17: on the routes delete_marble, set_owner and perform_trade the ledger
\* left is what one cleanTrades pass leaves of what the handler left, after a
\* success and after a failure, and the result and error returned are the
\* handler's; on init_marble, open_trade, remove_trade, init_owner, read and
\* write no pass runs: the open-trades document changes only by the offer
\* open_trade appends, the offer remove_trade removes or the bytes write
\* stores, so that unsatisfiable offers stay listed.
PostStepOrdering ==
    [][/\ last'.fn \in {"delete_marble", "set_owner", "perform_trade"} =>
            \E h \in {PostStepHandler(ledger, last')} :
                /\ last'.res = h.res
                /\ last'.err = h.err
                /\ ledger' = cleanTrades(h.st).st
                /\ (IsAllTrades(h.st[openTradesStr]) /\ IndexesMatchRecords(h.st))
                       => StaleTrades(ledger') = <<>>
       /\ last'.fn \in {"init_marble", "init_owner", "read"} =>
            ledger'[openTradesStr] = ledger[openTradesStr]
       /\ last'.fn = "open_trade" =>
            ledger'[openTradesStr] = ledger[openTradesStr] \/ OfferEntered
       /\ last'.fn = "remove_trade" =>
            ledger'[openTradesStr] = ledger[openTradesStr] \/ OfferCancelled
       /\ last'.fn = "write" =>
            ledger'[openTradesStr] = ledger[openTradesStr] \/ OffersOverwritten]_vars

\* an offer whose user holds no matching marble is still listed after an
\* init_marble that succeeded
PostStepOrderingWitness ==
    /\ last.fn = "init_marble"
    /\ last.err = "nil"
    /\ IndexesMatchRecords(ledger)
    /\ StaleTrades(ledger) # <<>>

\* C18: Init, reached through the init route of Invoke, validates before it
\* writes: with an argument count other than one or an argument that is no
\* integer it fails and changes no key; otherwise it succeeds, stores the
\* decimal text of the integer under "abc", overwrites the marble index, the
\* open trades and the owner index with empty documents and leaves every
\* Marble and Owner record key as it was.
InitValidatesThenResets ==
    [][last'.fn = "init" =>
          IF Len(last'.args) # 1
          THEN /\ last'.err = "ArgumentCountError"
               /\ ledger' = ledger
          ELSE IF ~IsInt(last'.args[1])
          THEN /\ last'.err = "ArgumentTypeError"
               /\ ledger' = ledger
          ELSE /\ last'.err = "nil"
               /\ ledger'["abc"] = Raw(Itoa(Atoi(last'.args[1])))
               /\ ledger'[marbleIndexStr] = MarblesIndex(<<>>)
               /\ ledger'[openTradesStr] = AllTrades(<<>>)
               /\ ledger'[ownerIndexStr] = OwnersIndex(<<>>)
               /\ \A k \in RegistryNames \cup OwnerNames : ledger'[k] = ledger[k]]_vars

\* a reset went through and left a marble record and an owner record behind
\* the emptied indexes
InitValidatesThenResetsWitness ==
    /\ last.fn = "init"
    /\ last.err = "nil"
    /\ last.args = <<"+7">>
    /\ ledger["abc"] = Raw("7")
    /\ LiveMarbles(ledger) # {}
    /\ LiveOwners(ledger) # {}
    /\ IndexNames(ledger) = <<>>
    /\ OwnerIndexNames(ledger) = <<>>

\* C19: write(key, value) with exactly two arguments succeeds, stores value
\* under key and leaves every other key as it was, for a record key and for
\* the keys of the marble index, the owner index and the open trades alike;
\* no cleanTrades pass follows it; with any other argument count it fails and
\* changes no key.
WriteSetsOneKey ==
    [][last'.fn = "write" =>
          IF Len(last'.args) = 2
          THEN /\ last'.err = "nil"
               /\ ledger'[last'.args[1]] = Raw(last'.args[2])
               /\ \A k \in Keys \ {last'.args[1]} : ledger'[k] = ledger[k]
          ELSE /\ last'.err = "ArgumentCountError"
               /\ ledger' = ledger]_vars

\* the owner index was overwritten over a live owner record, and an offer
\* whose user holds no matching marble is still listed
WriteSetsOneKeyWitness ==
    /\ last.fn = "write"
    /\ last.err = "nil"
    /\ last.args[1] = ownerIndexStr
    /\ ledger[ownerIndexStr] = Raw("x")
    /\ LiveOwners(ledger) # {}
    /\ IsMarblesIndex(ledger[marbleIndexStr])
    /\ StaleTrades(ledger) # <<>>

\* marble n of st is live, owned by user and matches an entry of willing
MatchesWilling(st, n, user, willing) ==
    /\ IsMarble(st[n])
    /\ st[n].owner = user
    /\ \E j \in 1..Len(willing) :
          willing[j].color = st[n].color /\ willing[j].size = st[n].size

\* C20: a performTrade that finds a match hands over the marble of the
\* trade's user that matches willing and comes first in the order of the
\* marble index: no name listed before it is a match, and the user's other
\* matching marbles stay with the user.
FirstMatchInIndexOrder ==
    [][SwapMatches(ledger, last') =>
          LET trade == OpenTrades(ledger)[Atoi(last'.args[1]) + 1]
              index == IndexNames(ledger)
          IN  \E p \in 1..Len(index) :
                  /\ MatchesWilling(ledger, index[p], trade.user, trade.willing)
                  /\ \A q \in 1..(p - 1) :
                        ~MatchesWilling(ledger, index[q], trade.user, trade.willing)
                  /\ ledger'[index[p]] = [ledger[index[p]] EXCEPT !.owner = last'.args[2]]
                  /\ \A q \in (p + 1)..Len(index) :
                        index[q] # last'.args[3] => ledger'[index[q]] = ledger[index[q]]]_vars

\* a swap went through in which the user held two matching marbles: the
\* counterparty now holds one marble, and the user still holds a marble of
\* the same description that is listed after it
FirstMatchInIndexOrderWitness ==
    /\ last.fn = "perform_trade"
    /\ last.err = "nil"
    /\ Len(IndexNames(ledger)) = 3
    /\ \E p, q \in 1..3 :
          /\ p < q
          /\ ledger[IndexNames(ledger)[p]].owner = last.args[2]
          /\ ledger[IndexNames(ledger)[q]].owner # last.args[2]
          /\ ledger[IndexNames(ledger)[q]].owner = ledger[last.args[3]].owner
          /\ DescOf(ledger[IndexNames(ledger)[p]]) = DescOf(ledger[IndexNames(ledger)[q]])
          /\ IndexNames(ledger)[p] # last.args[3]
          /\ IndexNames(ledger)[q] # last.args[3]
====
